---- MODULE Spec2Model ----
(***************************************************************************)
(* A model of the blackjack environment: the BlackjackGame object of       *)
(* blackjack.py (deck, hand evaluation, round engine, outcome resolver,    *)
(* experiment driver) and the reference strategy of                        *)
(* blackjack_strategies.py.                                                 *)
(*                                                                         *)
(* Cards are the rank strings of CARD_DECK.  self.cards is a sequence whose *)
(* last element is the next card dealt.  play() and experiment() advance    *)
(* one statement at a time (pc, epc), so that an exception raised by        *)
(* deal_card leaves them where the code leaves them.  The print calls made  *)
(* when self.logging is set change no state and are left out.               *)
(***************************************************************************)
EXTENDS Integers, Sequences, FiniteSets

VARIABLES
    n_card_decks,   \* self.n_card_decks
    cards,          \* self.cards: the deck, a list; deal_card pops its last element
    pc,             \* position inside play(): idle, Dealing, PlayerTurn, PlayerHit, DealerTurn, Resolved
    strategy,       \* the player_strategy callable handed to the running call
    player_hand,    \* play()'s local player_hand
    dealer_hand,    \* play()'s local dealer_hand
    strat_args,     \* the argument tuple of the latest player_strategy(...) invocation
    result,         \* the value play() returned last
    epc,            \* position inside experiment(): idle, loop, play, tally, reset, returned
    n_runs,         \* experiment()'s argument n_runs
    run,            \* number of loop iterations of experiment() started so far
    results,        \* experiment()'s local results dict
    err,            \* the exception the latest call ended with, "none" when it did not raise
    rounds,         \* history: the rounds started since the deck was last built
    drawn,          \* history: the cards popped since the deck was last built, in draw order
    round_deck,     \* history: self.cards as it was when the running round started
    value           \* the value calculate_hand_value returned last (hand evaluator specification)

vars == <<n_card_decks, cards, pc, strategy, player_hand, dealer_hand, strat_args,
          result, epc, n_runs, run, results, err, rounds, drawn, round_deck, value>>

---------------------------------------------------------------------------
(* Bounds of the model *)

\* longest hand handed to the hand evaluator in HandSpec
MaxHandLen == 4
\* longest hand of Aces alone handed to the hand evaluator in HandSpec
MaxAces == 11
\* longest final hand handed to the outcome resolver in WinnerSpec
MaxFinalLen == 3
\* the largest n_card_decks a game is constructed with
MaxDecks == 2
\* the largest n_runs experiment() is called with
MaxRuns == 2
\* the most hits the arbitrary strategy asks for in one round
MaxHits == 2
\* the most rounds the client starts on a deck without a reset()
MaxRounds == 1
\* the shuffles explored: pile shuffles with at most MaxPiles piles ...
MaxPiles == 26
\* ... followed by a cut of at most MaxCut cards
MaxCut == 3
\* the largest n_card_decks of a game on which play() is repeated without reset()
MaxRepeatDecks == 1

\* the n_card_decks a game is constructed with, the invalid ones included
DeckCounts == -1..MaxDecks
\* the n_runs experiment() is called with, an invalid one included
RunCounts == -1..MaxRuns

---------------------------------------------------------------------------
(* Cards *)

\* the 13-rank alphabet, in the order CARD_DECK lists it
Ranks == <<"2", "3", "4", "5", "6", "7", "8", "9", "10", "J", "Q", "K", "A">>

RankSet == {Ranks[i] : i \in 1..Len(Ranks)}

\* CARD_DECK = [...] * 4
CARD_DECK == Ranks \o Ranks \o Ranks \o Ranks

\* Python's list * int: the list repeated n times, the empty list when n <= 0
RECURSIVE ListRepeat(_, _)
ListRepeat(s, n) == IF n <= 0 THEN <<>> ELSE s \o ListRepeat(s, n - 1)

\* int(card) for the numeric ranks
CardInt(card) ==
    CASE card = "2" -> 2 [] card = "3" -> 3 [] card = "4" -> 4 [] card = "5" -> 5
      [] card = "6" -> 6 [] card = "7" -> 7 [] card = "8" -> 8 [] card = "9" -> 9
      [] card = "10" -> 10

---------------------------------------------------------------------------
(* BlackjackGame.calculate_hand_value *)

\* the for loop over the hand: <<value, aces>> after the cards from index i on
RECURSIVE CardLoop(_, _, _, _)
CardLoop(hand, i, v, aces) ==
    IF i > Len(hand) THEN <<v, aces>>
    ELSE LET card == hand[i] IN
         IF card \in {"J", "Q", "K"} THEN CardLoop(hand, i + 1, v + 10, aces)
         ELSE IF card = "A" THEN CardLoop(hand, i + 1, v + 11, aces + 1)
         ELSE CardLoop(hand, i + 1, v + CardInt(card), aces)

\* a faulty variant of AceLoop: at most one Ace is downgraded
AceLoopOnce(v, aces) ==
    IF v > 21 /\ aces # 0 THEN v - 10 ELSE v

\* while value > 21 and aces: value -= 10; aces -= 1
RECURSIVE AceLoop(_, _)
AceLoop(v, aces) ==
    IF v > 21 /\ aces # 0 THEN AceLoop(v - 10, aces - 1) ELSE v

calculate_hand_value(hand) ==
    LET r == CardLoop(hand, 1, 0, 0) IN AceLoop(r[1], r[2])

---------------------------------------------------------------------------
(* blackjack_strategies.calculate_hand_value and basic *)

RECURSIVE StrategyCardLoop(_, _, _, _)
StrategyCardLoop(hand, i, v, aces) ==
    IF i > Len(hand) THEN <<v, aces>>
    ELSE LET card == hand[i] IN
         IF card \in {"J", "Q", "K"} THEN StrategyCardLoop(hand, i + 1, v + 10, aces)
         ELSE IF card = "A" THEN StrategyCardLoop(hand, i + 1, v + 11, aces + 1)
         ELSE StrategyCardLoop(hand, i + 1, v + CardInt(card), aces)

\* a faulty variant of StrategyAceLoop: at most one Ace is downgraded
StrategyAceLoopOnce(v, aces) ==
    IF v > 21 /\ aces # 0 THEN v - 10 ELSE v

RECURSIVE StrategyAceLoop(_, _)
StrategyAceLoop(v, aces) ==
    IF v > 21 /\ aces # 0 THEN StrategyAceLoop(v - 10, aces - 1) ELSE v

strategy_calculate_hand_value(hand) ==
    LET r == StrategyCardLoop(hand, 1, 0, 0) IN StrategyAceLoop(r[1], r[2])

\* basic(player_hand, dealer_upcard): True to hit, False to stand
basic(hand, dealer_upcard) == strategy_calculate_hand_value(hand) < 17

---------------------------------------------------------------------------
(* BlackjackGame.determine_winner *)

\* a faulty variant of determine_winner: the dealer's bust is tested before the player's
determine_winner_dealer_first(p_hand, d_hand) ==
    LET player_value == calculate_hand_value(p_hand)
        dealer_value == calculate_hand_value(d_hand)
    IN  IF dealer_value > 21 \/ player_value > dealer_value THEN "win"
        ELSE IF player_value > 21 THEN "lose"
        ELSE IF player_value < dealer_value THEN "lose"
        ELSE "draw"

determine_winner(p_hand, d_hand) ==
    LET player_value == calculate_hand_value(p_hand)
        dealer_value == calculate_hand_value(d_hand)
    IN  IF player_value > 21 THEN "lose"
        ELSE IF dealer_value > 21 \/ player_value > dealer_value THEN "win"
        ELSE IF player_value < dealer_value THEN "lose"
        ELSE "draw"

---------------------------------------------------------------------------
(* Values the variables hold while a part of the program is not running *)

NoResults == [win |-> 0, lose |-> 0, draw |-> 0]

\* the engine's variables at rest, for the specifications of the pure functions
EngineAtRest ==
    /\ n_card_decks = 1 /\ cards = <<>> /\ pc = "idle" /\ strategy = "none"
    /\ strat_args = <<>> /\ epc = "idle" /\ n_runs = 0 /\ run = 0
    /\ results = NoResults /\ err = "none" /\ rounds = 0 /\ drawn = <<>>
    /\ round_deck = <<>>

EngineUnchanged ==
    UNCHANGED <<n_card_decks, cards, pc, strategy, strat_args, epc, n_runs, run,
                results, err, rounds, drawn, round_deck>>

---------------------------------------------------------------------------
(* HandSpec: the hand evaluator applied to every hand of at most MaxHandLen *)
(* cards over the 13 ranks, and to the hands of up to MaxAces Aces          *)

HandInit ==
    /\ EngineAtRest
    /\ player_hand = <<>> /\ dealer_hand = <<>> /\ result = "none" /\ value = -1

\* the caller builds a hand, card by card
HandAppend ==
    /\ value = -1
    /\ Len(player_hand) < MaxHandLen
    /\ \E c \in RankSet : player_hand' = Append(player_hand, c)
    /\ UNCHANGED <<dealer_hand, result, value>>
    /\ EngineUnchanged

\* the caller builds a longer hand of Aces alone
HandAppendAce ==
    /\ value = -1
    /\ Len(player_hand) >= MaxHandLen /\ Len(player_hand) < MaxAces
    /\ \A i \in 1..Len(player_hand) : player_hand[i] = "A"
    /\ player_hand' = Append(player_hand, "A")
    /\ UNCHANGED <<dealer_hand, result, value>>
    /\ EngineUnchanged

\* value = self.calculate_hand_value(hand)
HandEvaluate ==
    /\ value = -1
    /\ value' = calculate_hand_value(player_hand)
    /\ UNCHANGED <<player_hand, dealer_hand, result>>
    /\ EngineUnchanged

HandNext == HandAppend \/ HandAppendAce \/ HandEvaluate

HandSpec == HandInit /\ [][HandNext]_vars

---------------------------------------------------------------------------
(* WinnerSpec: the outcome resolver applied to pairs of final hands of at  *)
(* most MaxFinalLen cards each; the hands are listed in the alphabet's      *)
(* order (every order of a hand is covered by HandSpec)                     *)

RankIndex(c) == CHOOSE i \in 1..Len(Ranks) : Ranks[i] = c

\* the cards that may follow the hand's last card
NextCards(hand) ==
    IF hand = <<>> THEN RankSet
    ELSE {c \in RankSet : RankIndex(c) >= RankIndex(hand[Len(hand)])}

WinnerInit == HandInit

WinnerAppendPlayer ==
    /\ result = "none"
    /\ Len(player_hand) < MaxFinalLen
    /\ \E c \in NextCards(player_hand) : player_hand' = Append(player_hand, c)
    /\ UNCHANGED <<dealer_hand, result, value>>
    /\ EngineUnchanged

WinnerAppendDealer ==
    /\ result = "none"
    /\ Len(dealer_hand) < MaxFinalLen
    /\ \E c \in NextCards(dealer_hand) : dealer_hand' = Append(dealer_hand, c)
    /\ UNCHANGED <<player_hand, result, value>>
    /\ EngineUnchanged

\* result = self.determine_winner(player_hand, dealer_hand)
WinnerDetermine ==
    /\ result = "none"
    /\ result' = determine_winner(player_hand, dealer_hand)
    /\ UNCHANGED <<player_hand, dealer_hand, value>>
    /\ EngineUnchanged

WinnerNext == WinnerAppendPlayer \/ WinnerAppendDealer \/ WinnerDetermine

WinnerSpec == WinnerInit /\ [][WinnerNext]_vars

---------------------------------------------------------------------------
(* The deck: __init__, reset, deal_card *)

\* CARD_DECK * self.n_card_decks
NewDeck(n) == ListRepeat(CARD_DECK, n)

\* the place in the deck, counted from 0, of the card that a pile shuffle with
\* p piles puts at place j of a deck of N cards
PileIndex(N, p, j) == (j \div (N \div p)) + p * (j % (N \div p))

\* random.shuffle(self.cards): the orders of the deck the model explores, each a
\* permutation of it (a pile shuffle followed by a cut)
Shuffles(deck) ==
    LET N == Len(deck) IN
    IF N = 0 THEN {<<>>}
    ELSE {[j \in 1..N |-> deck[PileIndex(N, p, (j - 1 + b) % N) + 1]] :
              p \in {q \in 1..MaxPiles : N % q = 0}, b \in 0..MaxCut}

\* a faulty variant of PopCard: the first card is returned while the last is removed
PopCardFirst(deck) == deck[1]

\* the card self.cards.pop() returns: the last of the list
PopCard(deck) == deck[Len(deck)]

\* self.cards after self.cards.pop()
PopRest(deck) == SubSeq(deck, 1, Len(deck) - 1)

\* a faulty variant of ResetDeck: reset() tops the deck up to one standard deck only
ResetDeckSingle ==
    /\ cards' \in Shuffles(NewDeck(1))
    /\ drawn' = <<>> /\ rounds' = 0

\* the body of reset(), also the end of __init__: the deck is rebuilt and shuffled
ResetDeck ==
    /\ cards' \in Shuffles(NewDeck(n_card_decks))
    /\ drawn' = <<>> /\ rounds' = 0

---------------------------------------------------------------------------
(* The strategies a client hands to play() and experiment() *)

Strategies == {"basic", "always_hit", "arbitrary"}

\* what player_strategy(player_hand, dealer_upcard) may return: the reference
\* strategy, a strategy that always hits, and an arbitrary callable (one that
\* hits at most MaxHits times in a round)
StrategyAnswers(s, hand, dealer_upcard) ==
    CASE s = "basic" -> {basic(hand, dealer_upcard)}
      [] s = "always_hit" -> {TRUE}
      [] s = "arbitrary" -> IF Len(hand) - 2 < MaxHits THEN BOOLEAN ELSE {FALSE}

\* a faulty variant of StrategyArguments: the dealer's second card is passed
StrategyArgumentsHole(p_hand, d_hand) == <<p_hand, d_hand[2]>>

\* the arguments of player_strategy(player_hand, dealer_hand[0])
StrategyArguments(p_hand, d_hand) == <<p_hand, d_hand[1]>>

---------------------------------------------------------------------------
(* BlackjackGame.play *)

\* a faulty variant of DealTarget: the initial cards are dealt alternately
DealTargetAlternate(k) == IF k % 2 = 1 THEN "player" ELSE "dealer"

\* the hand that receives the k-th card of the round's initial deal
DealTarget(k) == IF k <= 2 THEN "player" ELSE "dealer"

\* a faulty variant of DealerHits: the dealer hits a soft 17
DealerHitsSoft17(hand) ==
    LET r == CardLoop(hand, 1, 0, 0) IN
    \/ calculate_hand_value(hand) < 17
    \/ (calculate_hand_value(hand) = 17 /\ r[2] * 10 > r[1] - 17)

\* the condition of the dealer's loop
DealerHits(hand) == calculate_hand_value(hand) < 17

\* the locals of play() and experiment() when no call is running
NoCall ==
    /\ pc' = "idle" /\ epc' = "idle" /\ strategy' = "none"
    /\ player_hand' = <<>> /\ dealer_hand' = <<>> /\ strat_args' = <<>>
    /\ n_runs' = 0 /\ run' = 0 /\ results' = NoResults

\* the client is free to call a method of the game
Ready == pc = "idle" /\ epc \in {"idle", "returned"}

\* play() is entered: by the client or by experiment()
EnterPlay ==
    /\ pc' = "Dealing"
    /\ player_hand' = <<>> /\ dealer_hand' = <<>> /\ strat_args' = <<>>
    /\ result' = "none"
    /\ round_deck' = cards
    /\ rounds' = rounds + 1

\* game.play(s), called by the client
PlayCall ==
    /\ Ready
    /\ \E s \in Strategies : strategy' = s
    /\ EnterPlay
    /\ epc' = "idle" /\ n_runs' = 0 /\ run' = 0 /\ results' = NoResults
    /\ err' = "none"
    /\ UNCHANGED <<n_card_decks, cards, drawn, value>>

\* the client of Spec starts at most MaxRounds rounds on a deck without a reset()
CallPlay == rounds < MaxRounds /\ PlayCall

\* one self.deal_card() of the initial deal
DealStep ==
    /\ pc = "Dealing" /\ cards # <<>>
    /\ LET card == PopCard(cards)
           k == Len(player_hand) + Len(dealer_hand) + 1
       IN  /\ cards' = PopRest(cards)
           /\ drawn' = Append(drawn, card)
           /\ IF DealTarget(k) = "player"
              THEN player_hand' = Append(player_hand, card) /\ UNCHANGED dealer_hand
              ELSE dealer_hand' = Append(dealer_hand, card) /\ UNCHANGED player_hand
           /\ pc' = IF k = 4 THEN "PlayerTurn" ELSE "Dealing"
    /\ UNCHANGED <<n_card_decks, strategy, strat_args, result, epc, n_runs, run,
                   results, err, rounds, round_deck, value>>

\* a faulty variant of StrategyQuery: a player hand over 21 ends the player's
\* turn without the strategy being asked
StrategyQueryBustStops ==
    /\ pc = "PlayerTurn"
    /\ IF calculate_hand_value(player_hand) > 21
       THEN pc' = "DealerTurn" /\ UNCHANGED strat_args
       ELSE LET args == StrategyArguments(player_hand, dealer_hand) IN
                /\ strat_args' = args
                /\ \E hit \in StrategyAnswers(strategy, args[1], args[2]) :
                       pc' = IF hit THEN "PlayerHit" ELSE "DealerTurn"
    /\ UNCHANGED <<n_card_decks, cards, strategy, player_hand, dealer_hand, result,
                   epc, n_runs, run, results, err, rounds, drawn, round_deck, value>>

\* the condition of the player's loop: the strategy is invoked and answers
StrategyQuery ==
    /\ pc = "PlayerTurn"
    /\ LET args == StrategyArguments(player_hand, dealer_hand) IN
           /\ strat_args' = args
           /\ \E hit \in StrategyAnswers(strategy, args[1], args[2]) :
                  pc' = IF hit THEN "PlayerHit" ELSE "DealerTurn"
    /\ UNCHANGED <<n_card_decks, cards, strategy, player_hand, dealer_hand, result,
                   epc, n_runs, run, results, err, rounds, drawn, round_deck, value>>

\* a faulty variant of PlayerHit: the card dealt is put in front of the hand
PlayerHitInsertsFront ==
    /\ pc = "PlayerHit" /\ cards # <<>>
    /\ player_hand' = <<PopCard(cards)>> \o player_hand
    /\ drawn' = Append(drawn, PopCard(cards))
    /\ cards' = PopRest(cards)
    /\ pc' = "PlayerTurn"
    /\ UNCHANGED <<n_card_decks, strategy, dealer_hand, strat_args, result, epc,
                   n_runs, run, results, err, rounds, round_deck, value>>

\* a faulty variant of PlayerHit: the card dealt is not appended to the hand
PlayerHitDropsCard ==
    /\ pc = "PlayerHit" /\ cards # <<>>
    /\ drawn' = Append(drawn, PopCard(cards))
    /\ cards' = PopRest(cards)
    /\ pc' = "PlayerTurn"
    /\ UNCHANGED <<n_card_decks, strategy, player_hand, dealer_hand, strat_args,
                   result, epc, n_runs, run, results, err, rounds, round_deck, value>>

\* player_hand.append(self.deal_card())
PlayerHit ==
    /\ pc = "PlayerHit" /\ cards # <<>>
    /\ player_hand' = Append(player_hand, PopCard(cards))
    /\ drawn' = Append(drawn, PopCard(cards))
    /\ cards' = PopRest(cards)
    /\ pc' = "PlayerTurn"
    /\ UNCHANGED <<n_card_decks, strategy, dealer_hand, strat_args, result, epc,
                   n_runs, run, results, err, rounds, round_deck, value>>

\* a faulty variant of DealerHit: the dealer's card is taken from either end of
\* the deck, at random
DealerHitEitherEnd ==
    /\ pc = "DealerTurn" /\ DealerHits(dealer_hand) /\ cards # <<>>
    /\ \/ /\ dealer_hand' = Append(dealer_hand, PopCard(cards))
          /\ drawn' = Append(drawn, PopCard(cards))
          /\ cards' = PopRest(cards)
       \/ /\ dealer_hand' = Append(dealer_hand, Head(cards))
          /\ drawn' = Append(drawn, Head(cards))
          /\ cards' = Tail(cards)
    /\ UNCHANGED <<n_card_decks, pc, strategy, player_hand, strat_args, result, epc,
                   n_runs, run, results, err, rounds, round_deck, value>>

\* dealer_hand.append(self.deal_card())
DealerHit ==
    /\ pc = "DealerTurn" /\ DealerHits(dealer_hand) /\ cards # <<>>
    /\ dealer_hand' = Append(dealer_hand, PopCard(cards))
    /\ drawn' = Append(drawn, PopCard(cards))
    /\ cards' = PopRest(cards)
    /\ UNCHANGED <<n_card_decks, pc, strategy, player_hand, strat_args, result, epc,
                   n_runs, run, results, err, rounds, round_deck, value>>

\* a faulty variant of DealerStand: the dealer's loop also ends when the player
\* is over 21
DealerStandOnPlayerBust ==
    /\ pc = "DealerTurn"
    /\ ~DealerHits(dealer_hand) \/ calculate_hand_value(player_hand) > 21
    /\ pc' = "Resolved"
    /\ UNCHANGED <<n_card_decks, cards, strategy, player_hand, dealer_hand,
                   strat_args, result, epc, n_runs, run, results, err, rounds,
                   drawn, round_deck, value>>

\* the dealer's loop ends
DealerStand ==
    /\ pc = "DealerTurn" /\ ~DealerHits(dealer_hand)
    /\ pc' = "Resolved"
    /\ UNCHANGED <<n_card_decks, cards, strategy, player_hand, dealer_hand,
                   strat_args, result, epc, n_runs, run, results, err, rounds,
                   drawn, round_deck, value>>

\* a faulty variant of PlayReturn: the round's cards go back on the deck
PlayReturnPutsBack ==
    /\ pc = "Resolved"
    /\ result' = determine_winner(player_hand, dealer_hand)
    /\ pc' = "idle"
    /\ player_hand' = <<>> /\ dealer_hand' = <<>> /\ strat_args' = <<>>
    /\ round_deck' = <<>>
    /\ cards' = round_deck
    /\ IF epc = "play"
       THEN epc' = "tally" /\ UNCHANGED strategy
       ELSE epc' = "idle" /\ strategy' = "none"
    /\ UNCHANGED <<n_card_decks, n_runs, run, results, err, rounds, drawn, value>>

\* return self.determine_winner(player_hand, dealer_hand)
PlayReturn ==
    /\ pc = "Resolved"
    /\ result' = determine_winner(player_hand, dealer_hand)
    /\ pc' = "idle"
    /\ player_hand' = <<>> /\ dealer_hand' = <<>> /\ strat_args' = <<>>
    /\ round_deck' = <<>>
    /\ IF epc = "play"
       THEN epc' = "tally" /\ UNCHANGED strategy
       ELSE epc' = "idle" /\ strategy' = "none"
    /\ UNCHANGED <<n_card_decks, cards, n_runs, run, results, err, rounds, drawn,
                   value>>

\* a draw is the next step of play()
DrawPending ==
    \/ pc = "Dealing"
    \/ pc = "PlayerHit"
    \/ (pc = "DealerTurn" /\ DealerHits(dealer_hand))

\* a faulty variant of DrawFromEmpty: the deck is rebuilt when it runs out
DrawFromEmptyRebuilds ==
    /\ DrawPending /\ cards = <<>>
    /\ ResetDeck
    /\ UNCHANGED <<n_card_decks, pc, strategy, player_hand, dealer_hand, strat_args,
                   result, epc, n_runs, run, results, err, round_deck, value>>

\* self.cards.pop() on an empty list raises IndexError; neither play() nor
\* experiment() catches it, so the call is abandoned and the client gets it
DrawFromEmpty ==
    /\ DrawPending /\ cards = <<>>
    /\ err' = "IndexError"
    /\ NoCall
    /\ round_deck' = <<>>
    /\ UNCHANGED <<n_card_decks, cards, result, rounds, drawn, value>>

---------------------------------------------------------------------------
(* BlackjackGame.reset and BlackjackGame.experiment *)

\* game.reset(), called by the client
CallReset ==
    /\ Ready
    /\ ResetDeck
    /\ NoCall
    /\ err' = "none"
    /\ UNCHANGED <<n_card_decks, result, round_deck, value>>

\* game.experiment(n, s), called by the client: results = {'win': 0, ...}
\* (a call that will start a round counts against MaxRounds)
CallExperiment ==
    /\ Ready
    /\ \E n \in RunCounts : (n > 0 => rounds < MaxRounds) /\ n_runs' = n
    /\ \E s \in Strategies : strategy' = s
    /\ epc' = "loop" /\ run' = 0 /\ results' = NoResults
    /\ pc' = "idle"
    /\ player_hand' = <<>> /\ dealer_hand' = <<>> /\ strat_args' = <<>>
    /\ result' = "none" /\ err' = "none"
    /\ UNCHANGED <<n_card_decks, cards, rounds, drawn, round_deck, value>>

\* for _ in range(n_runs): the next iteration starts with self.play(...)
ExperimentRound ==
    /\ epc = "loop" /\ run < n_runs
    /\ run' = run + 1
    /\ epc' = "play"
    /\ EnterPlay
    /\ UNCHANGED <<n_card_decks, cards, strategy, n_runs, results, err, drawn,
                   value>>

\* a faulty variant of Tally: a draw is not counted
TallyNoDraw(res, r) == IF r = "draw" THEN res ELSE [res EXCEPT ![r] = @ + 1]

\* a faulty variant of Tally: the count is set to 1 instead of incremented
TallySetsOne(res, r) == [res EXCEPT ![r] = 1]

\* results[result] += 1
Tally(res, r) == [res EXCEPT ![r] = @ + 1]

ExperimentTally ==
    /\ epc = "tally"
    /\ results' = Tally(results, result)
    /\ epc' = "reset"
    /\ UNCHANGED <<n_card_decks, cards, pc, strategy, player_hand, dealer_hand,
                   strat_args, result, n_runs, run, err, rounds, drawn, round_deck,
                   value>>

\* a faulty variant of ExperimentReset: the iteration ends without a reset
ExperimentResetSkipped ==
    /\ epc = "reset"
    /\ epc' = "loop"
    /\ UNCHANGED <<n_card_decks, cards, pc, strategy, player_hand, dealer_hand,
                   strat_args, result, n_runs, run, results, err, rounds, drawn,
                   round_deck, value>>

\* self.reset() at the end of an iteration
ExperimentReset ==
    /\ epc = "reset"
    /\ ResetDeck
    /\ epc' = "loop"
    /\ UNCHANGED <<n_card_decks, pc, strategy, player_hand, dealer_hand, strat_args,
                   result, n_runs, run, results, err, round_deck, value>>

\* range(n_runs) is used up (at once when n_runs <= 0): return results
ExperimentReturn ==
    /\ epc = "loop" /\ ~(run < n_runs)
    /\ epc' = "returned"
    /\ strategy' = "none"
    /\ UNCHANGED <<n_card_decks, cards, pc, player_hand, dealer_hand, strat_args,
                   result, n_runs, run, results, err, rounds, drawn, round_deck,
                   value>>

---------------------------------------------------------------------------
(* Spec: a client constructs a game and calls play, reset and experiment *)

\* BlackjackGame(n_card_decks): the state after __init__
Init ==
    /\ n_card_decks \in DeckCounts
    /\ cards \in Shuffles(NewDeck(n_card_decks))
    /\ pc = "idle" /\ epc = "idle" /\ strategy = "none"
    /\ player_hand = <<>> /\ dealer_hand = <<>> /\ strat_args = <<>>
    /\ result = "none" /\ n_runs = 0 /\ run = 0 /\ results = NoResults
    /\ err = "none" /\ rounds = 0 /\ drawn = <<>> /\ round_deck = <<>>
    /\ value = -1

Next ==
    \/ CallPlay \/ DealStep \/ StrategyQuery \/ PlayerHit \/ DealerHit
    \/ DealerStand \/ PlayReturn \/ DrawFromEmpty
    \/ CallReset \/ CallExperiment \/ ExperimentRound \/ ExperimentTally
    \/ ExperimentReset \/ ExperimentReturn

Spec == Init /\ [][Next]_vars

\* a statement of play(): once called, play() runs on until it returns or raises
RoundStep ==
    \/ DealStep \/ StrategyQuery \/ PlayerHit \/ DealerHit \/ DealerStand
    \/ PlayReturn \/ DrawFromEmpty

\* RepeatSpec: a client that constructs a game and calls play() again and again,
\* never reset(), until a call raises; no bound on the rounds but the deck's
CallPlayAgain == err = "none" /\ PlayCall

RepeatNext == CallPlayAgain \/ RoundStep

RepeatInit == Init /\ n_card_decks <= MaxRepeatDecks

RepeatSpec == RepeatInit /\ [][RepeatNext]_vars /\ WF_vars(RepeatNext)

\* Spec with the progress of a running play(): sequential code whose next
\* statement is executed
FairSpec == Init /\ [][Next]_vars /\ WF_vars(RoundStep)

---------------------------------------------------------------------------
(* Claims about the hand evaluator and the outcome resolver *)

\* the positions of the Aces of a hand
AcePositions(hand) == {i \in 1..Len(hand) : hand[i] = "A"}

\* the fixed value of a rank other than the Ace: face value, 10 for J, Q, K
FixedValue(c) == IF c \in {"J", "Q", "K"} THEN 10 ELSE CardInt(c)

\* the total of a hand with its Aces valued by f (position -> 1 or 11)
RECURSIVE TotalUnder(_, _, _)
TotalUnder(hand, f, i) ==
    IF i > Len(hand) THEN 0
    ELSE (IF hand[i] = "A" THEN f[i] ELSE FixedValue(hand[i])) + TotalUnder(hand, f, i + 1)

\* the totals of a hand over all assignments of 1 or 11 to each Ace
Totals(hand) == {TotalUnder(hand, f, 1) : f \in [AcePositions(hand) -> {1, 11}]}

AllAcesAsOne(hand) == TotalUnder(hand, [i \in AcePositions(hand) |-> 1], 1)

\* C1: calculate_hand_value returns the largest total that is at most 21 over
\* all assignments of 1 or 11 to each Ace, and the all-Aces-as-1 total when no
\* assignment gives at most 21; the value exceeds 21 exactly when the
\* all-Aces-as-1 total does.
C1_BestTotal ==
    value # -1 =>
        LET good == {t \in Totals(player_hand) : t <= 21} IN
        /\ good # {} => (value \in good /\ \A t \in good : t <= value)
        /\ good = {} => value = AllAcesAsOne(player_hand)
        /\ (value > 21) <=> (AllAcesAsOne(player_hand) > 21)

\* a hand with two Aces or more that fits 21 only with every Ace counted as 1
C1_Witness ==
    /\ value # -1
    /\ Cardinality(AcePositions(player_hand)) >= 2
    /\ AllAcesAsOne(player_hand) + 10 > 21
    /\ value = AllAcesAsOne(player_hand)
    /\ value <= 21

\* the ordered rule list of the outcome resolver, on the two values
RuleList(player_value, dealer_value) ==
    CASE player_value > 21 -> "lose"
      [] player_value <= 21 /\ dealer_value > 21 -> "win"
      [] player_value <= 21 /\ dealer_value <= 21 /\ player_value > dealer_value -> "win"
      [] player_value <= 21 /\ dealer_value <= 21 /\ player_value < dealer_value -> "lose"
      [] player_value <= 21 /\ dealer_value <= 21 /\ player_value = dealer_value -> "draw"

\* C2: determine_winner returns the result of the ordered rule list applied to
\* the two hands' values (a player over 21 loses even when the dealer is over
\* 21 too), and the result is one of win, lose, draw.
C2_RuleList ==
    result # "none" =>
        /\ result = RuleList(calculate_hand_value(player_hand),
                             calculate_hand_value(dealer_hand))
        /\ result \in {"win", "lose", "draw"}

\* both hands are over 21 and the player loses
C2_Witness ==
    /\ result = "lose"
    /\ calculate_hand_value(player_hand) > 21
    /\ calculate_hand_value(dealer_hand) > 21

---------------------------------------------------------------------------
(* Claims about the round engine, the deck and the experiment driver *)

\* the number of copies of card c in a list of cards
Count(seq, c) == LET IsC(x) == x = c IN Len(SelectSeq(seq, IsC))

\* the k-th card taken from the deck in the running round
RoundCard(k) == round_deck[Len(round_deck) - k + 1]

\* the number of cards taken from the deck in the running round
RoundDraws == Len(round_deck) - Len(cards)

\* a round is running and past its initial deal
PastDeal == pc \in {"PlayerTurn", "PlayerHit", "DealerTurn", "Resolved"}

\* C3: after the initial deal the dealer draws a card only in a state where the
\* dealer's hand value is below 17, and the round moves to Resolved only in a
\* state where it is at least 17; a dealer hand worth exactly 17 receives no card.
C3_DealerRule ==
    [][/\ (Len(dealer_hand) >= 2 /\ Len(dealer_hand') > Len(dealer_hand))
            => calculate_hand_value(dealer_hand) < 17
       /\ (pc # "Resolved" /\ pc' = "Resolved")
            => (calculate_hand_value(dealer_hand) >= 17 /\ dealer_hand' = dealer_hand)
       /\ (pc = "DealerTurn" /\ calculate_hand_value(dealer_hand) = 17)
            => (pc' = "Resolved" /\ dealer_hand' = dealer_hand)]_vars

\* the dealer stood on a soft 17: an Ace and a 6
C3_Witness ==
    /\ pc = "Resolved"
    /\ Len(dealer_hand) = 2
    /\ Count(dealer_hand, "A") = 1
    /\ calculate_hand_value(dealer_hand) = 17

\* C4: when experiment(n_runs, strategy) returns, for the n_runs >= 0 of a batch
\* of n_runs rounds, the counts satisfy win + lose + draw = n_runs.
C4_CountsSumToRuns ==
    (epc = "returned" /\ n_runs >= 0)
        => results.win + results.lose + results.draw = n_runs

\* a batch of two rounds returned with a draw and a win
C4_Witness ==
    /\ epc = "returned" /\ n_runs = 2
    /\ results.draw = 1 /\ results.win = 1

\* C5, as amended: a draw from a deck with no cards left fails with IndexError,
\* and the deck is still empty afterwards.
C5_IndexError ==
    [][(DrawPending /\ cards = <<>>) => (err' = "IndexError" /\ cards' = <<>>)]_vars

\* a deck of 52 cards or more was drawn empty and the next draw failed
C5_Witness ==
    /\ err = "IndexError" /\ cards = <<>>
    /\ n_card_decks >= 1 /\ Len(drawn) = 52 * n_card_decks

\* C5, as claimed: a draw from a deck with no cards left fails with
\* EmptyDeckError, and the deck is still empty afterwards.
C5_EmptyDeckError ==
    [][(DrawPending /\ cards = <<>>) => (err' = "EmptyDeckError" /\ cards' = <<>>)]_vars

\* a deck of n standard decks: 52*n cards, 4*n copies of each rank
StandardDecks(deck, n) ==
    /\ Len(deck) = 52 * n
    /\ \A c \in RankSet : Count(deck, c) = 4 * n

\* a step that is a reset(): the one that ends an iteration of experiment(), or
\* the client's call, the only step that leaves a game at rest at rest
ResetStep ==
    \/ (epc = "reset" /\ epc' = "loop")
    \/ (Ready /\ pc' = "idle" /\ epc' = "idle")

\* no round was started and no card taken since the deck was built: the state
\* after __init__, and after a reset() whatever the deck held before it
FreshlyBuilt == rounds = 0 /\ drawn = <<>>

\* C6: after construction and after every reset(), for a game of
\* n_card_decks = n >= 0 decks, the deck holds exactly 52*n cards with 4*n
\* copies of each rank, and no card drawn before remains outstanding.
C6_FreshDeck ==
    /\ [](FreshlyBuilt /\ n_card_decks >= 0 => StandardDecks(cards, n_card_decks))
    /\ [][ResetStep => FreshlyBuilt']_vars

\* experiment() has reset a two-deck game after its first round
C6_Witness ==
    /\ epc = "loop" /\ run = 1 /\ n_card_decks = 2
    /\ drawn = <<>> /\ Len(cards) = 104

\* C7: every successful draw reduces the deck size by exactly 1, and the ranks
\* in the deck plus the ranks drawn since the deck was last built (the hands of
\* the rounds played since) are the ranks of a freshly built deck.
C7_DeckConservation ==
    /\ [](LET fresh == NewDeck(n_card_decks)
              round == SubSeq(drawn, Len(drawn) - RoundDraws + 1, Len(drawn))
          IN  /\ Len(cards) + Len(drawn) = Len(fresh)
              /\ \A c \in RankSet :
                    Count(cards, c) + Count(drawn, c) = Count(fresh, c)
              /\ pc # "idle" =>
                    /\ RoundDraws = Len(player_hand) + Len(dealer_hand)
                    /\ \A c \in RankSet :
                          Count(player_hand, c) + Count(dealer_hand, c)
                            = Count(round, c))
    /\ [][Len(drawn') > Len(drawn)
            => (Len(drawn') = Len(drawn) + 1 /\ Len(cards') = Len(cards) - 1)]_vars

\* the dealer is drawing in a round in which the player has hit
C7_Witness ==
    /\ pc = "DealerTurn" /\ Len(dealer_hand) >= 3 /\ Len(player_hand) >= 3
    /\ n_card_decks = 2

\* C8, as claimed: an invalid configuration ends in an error: no game exists
\* that was constructed with n_card_decks <= 0 and holds an empty deck, and no
\* experiment called with n_runs < 0 returns all-zero statistics.
C8_InvalidConfigurationFails ==
    /\ ~(n_card_decks <= 0 /\ cards = <<>> /\ err = "none")
    /\ ~(epc = "returned" /\ n_runs < 0 /\ results = NoResults)

\* C9: at every invocation of the strategy the arguments are the player's
\* current hand and the dealer's first dealt card (the third card of the round),
\* and while the strategy is consulted the dealer holds the initial two cards.
C9_StrategyArguments ==
    /\ pc \in {"idle", "Dealing"} => strat_args = <<>>
    /\ pc \in {"PlayerTurn", "PlayerHit"} => Len(dealer_hand) = 2
    /\ pc \in {"PlayerHit", "DealerTurn", "Resolved"}
            => strat_args = <<player_hand, RoundCard(3)>>
    /\ (pc = "PlayerTurn" /\ strat_args # <<>>)
            => strat_args = <<SubSeq(player_hand, 1, Len(player_hand) - 1), RoundCard(3)>>

\* the strategy was consulted a second time, the dealer's two cards differing
C9_Witness ==
    /\ pc = "PlayerHit" /\ Len(player_hand) = 3
    /\ dealer_hand[1] # dealer_hand[2]

\* C10: every round starts by drawing exactly four cards, player, player,
\* dealer, dealer: the first two cards taken from the deck are the player's
\* initial hand, the next two the dealer's, before any strategy query or hit.
C10_DealOrder ==
    /\ pc = "Dealing" =>
          /\ strat_args = <<>>
          /\ RoundDraws < 4
          /\ player_hand \o dealer_hand = [k \in 1..RoundDraws |-> RoundCard(k)]
          /\ Len(player_hand) = IF RoundDraws < 2 THEN RoundDraws ELSE 2
    /\ PastDeal =>
          /\ SubSeq(player_hand, 1, 2) = <<RoundCard(1), RoundCard(2)>>
          /\ SubSeq(dealer_hand, 1, 2) = <<RoundCard(3), RoundCard(4)>>
    /\ (pc = "PlayerTurn" /\ strat_args = <<>>) =>
          /\ RoundDraws = 4
          /\ Len(player_hand) = 2 /\ Len(dealer_hand) = 2

\* the initial deal is done, its four cards all of different ranks
C10_Witness ==
    /\ pc = "PlayerTurn" /\ strat_args = <<>>
    /\ Cardinality({RoundCard(k) : k \in 1..4}) = 4

---------------------------------------------------------------------------
(* Claims about experiment()'s resets *)

\* C11, as amended: in experiment() a reset follows every completed round: the
\* tally is followed by the reset, which leaves a deck of 52*n_card_decks cards
\* with nothing drawn from it; every round after the first starts on such a
\* deck, and so does the client when experiment() returns after at least one
\* iteration.
C11_ResetAfterEveryRound ==
    /\ []((epc = "play" /\ run >= 2)
            => (Len(round_deck) = 52 * n_card_decks /\ rounds = 1
                /\ Len(drawn) = RoundDraws))
    /\ []((epc = "returned" /\ run >= 1)
            => (Len(cards) = 52 * n_card_decks /\ drawn = <<>>))
    /\ []((epc = "loop" /\ run >= 1)
            => (Len(cards) = 52 * n_card_decks /\ drawn = <<>>))
    /\ [][/\ epc = "tally" => epc' = "reset"
          /\ epc = "reset" => epc' = "loop"
          /\ (epc = "play" /\ epc' # "play") => (epc' = "tally" \/ err' = "IndexError")]_vars

\* the second round of a batch is being dealt from a full two-deck deck, the
\* first round having taken five cards or more
C11_Witness ==
    /\ epc = "play" /\ run = 2 /\ pc = "Dealing" /\ RoundDraws = 2
    /\ n_card_decks = 2 /\ Len(round_deck) = 104

\* C11, as claimed, for the valid configurations: whenever experiment()
\* returns the deck holds 52*n_card_decks cards.
C11_FullDeckOnReturn ==
    (epc = "returned" /\ n_card_decks >= 1 /\ n_runs >= 0)
        => Len(cards) = 52 * n_card_decks

---------------------------------------------------------------------------
(* Claims about determinism *)

\* the strategies whose answer is a function of their arguments
DeterministicStrategies ==
    {s \in Strategies :
        \A h \in {<<"2", "3">>, <<"K", "A">>, <<"K", "6", "9">>} :
            Cardinality(StrategyAnswers(s, h, "2")) = 1}

\* the answer of a deterministic strategy
AnswerOf(s, hand, dealer_upcard) == CHOOSE hit \in StrategyAnswers(s, hand, dealer_upcard) : TRUE

\* a round as a function of the deck it starts on and of the strategy: the
\* number of cards taken and the way the call ends, computed from the dealer's
\* turn on, k cards having been taken
RECURSIVE DealerTurnOf(_, _, _, _)
DealerTurnOf(deck, k, p_hand, d_hand) ==
    IF calculate_hand_value(d_hand) < 17
    THEN IF k = Len(deck)
         THEN [outcome |-> "IndexError", draws |-> k]
         ELSE DealerTurnOf(deck, k + 1, p_hand, Append(d_hand, deck[Len(deck) - k]))
    ELSE [outcome |-> determine_winner(p_hand, d_hand), draws |-> k]

RECURSIVE PlayerTurnOf(_, _, _, _, _)
PlayerTurnOf(s, deck, k, p_hand, d_hand) ==
    IF AnswerOf(s, p_hand, d_hand[1])
    THEN IF k = Len(deck)
         THEN [outcome |-> "IndexError", draws |-> k]
         ELSE PlayerTurnOf(s, deck, k + 1, Append(p_hand, deck[Len(deck) - k]), d_hand)
    ELSE DealerTurnOf(deck, k, p_hand, d_hand)

RoundOf(s, deck) ==
    LET N == Len(deck) IN
    IF N < 4 THEN [outcome |-> "IndexError", draws |-> N]
    ELSE PlayerTurnOf(s, deck, 4, <<deck[N], deck[N - 1]>>, <<deck[N - 2], deck[N - 3]>>)

\* C12: the engine is deterministic. In every round the cards taken are the top
\* cards of the deck the round started on, in the deck's order, and under a
\* deterministic strategy the number of cards taken and the outcome (a result,
\* or the failure of a draw) are the values of one function of that deck and
\* the strategy, so two executions that agree on them agree on the draws and
\* the outcome; in experiment() each outcome adds one to its count, the deck is
\* what the reset's shuffle made it, and n_runs rounds are played, so the
\* statistics are a function of n_runs, the decks and the strategy.
C12_Deterministic ==
    /\ [](pc # "idle" =>
            /\ cards = SubSeq(round_deck, 1, Len(cards))
            /\ SubSeq(drawn, Len(drawn) - RoundDraws + 1, Len(drawn))
                  = [k \in 1..RoundDraws |-> RoundCard(k)])
    /\ []((epc = "returned" /\ n_runs >= 0) => run = n_runs)
    /\ [][/\ (strategy \in DeterministicStrategies /\ pc # "idle" /\ pc' = "idle") =>
                LET r == RoundOf(strategy, round_deck) IN
                /\ RoundDraws = r.draws
                /\ cards' = cards
                /\ IF pc = "Resolved"
                   THEN result' = r.outcome /\ err' = err
                   ELSE err' = r.outcome /\ result' = result
          /\ (epc = "tally" /\ epc' # "tally") =>
                /\ results' = [results EXCEPT ![result] = @ + 1]
                /\ cards' = cards /\ run' = run
          /\ (epc = "play" /\ epc' \notin {"play", "idle"}) => results' = results]_vars

\* the second round of a batch under the reference strategy took six cards or
\* more and was won
C12_Witness ==
    /\ epc = "tally" /\ run = 2 /\ strategy = "basic"
    /\ result = "win" /\ Len(drawn) >= 6

---------------------------------------------------------------------------
(* Claims about the player's and the dealer's turn *)

\* C13: the player's turn ends only when the strategy answers stand. Every step
\* out of PlayerTurn is a strategy query on the current hand, and it leads to
\* the dealer's turn only on a stand answer and to a hit only on a hit answer,
\* whatever the hand's value; a hit draws exactly one card, appends it to the
\* player's hand and returns to the query (or fails on an empty deck); the
\* dealer's turn is entered from nowhere else, and under a strategy that always
\* answers hit it is never reached.
C13_TurnEndsOnStand ==
    /\ [](strategy = "always_hit" => pc \notin {"DealerTurn", "Resolved"})
    /\ [][/\ (pc = "PlayerTurn" /\ pc' # "PlayerTurn") =>
                /\ strat_args' = <<player_hand, dealer_hand[1]>>
                /\ player_hand' = player_hand /\ dealer_hand' = dealer_hand
                /\ cards' = cards
                /\ pc' \in {"PlayerHit", "DealerTurn"}
                /\ pc' = "DealerTurn"
                     => FALSE \in StrategyAnswers(strategy, player_hand, dealer_hand[1])
                /\ pc' = "PlayerHit"
                     => TRUE \in StrategyAnswers(strategy, player_hand, dealer_hand[1])
          /\ (pc = "PlayerHit" /\ pc' # "PlayerHit") =>
                \/ /\ cards # <<>> /\ pc' = "PlayerTurn"
                   /\ player_hand' = Append(player_hand, cards[Len(cards)])
                   /\ Len(cards') = Len(cards) - 1
                   /\ dealer_hand' = dealer_hand
                \/ /\ cards = <<>> /\ pc' = "idle" /\ err' = "IndexError"
          /\ (pc # "DealerTurn" /\ pc' = "DealerTurn") => pc = "PlayerTurn"]_vars

\* the always-hit strategy has answered hit on a hand that is over 21 already
C13_Witness ==
    /\ pc = "PlayerHit" /\ strategy = "always_hit"
    /\ calculate_hand_value(player_hand) > 21
    /\ Len(player_hand) >= 5

\* a round under the reference strategy on a freshly built deck of one standard
\* deck or more
FreshBasicRound ==
    /\ pc # "idle" /\ strategy = "basic"
    /\ rounds = 1 /\ n_card_decks >= 1 /\ Len(drawn) = RoundDraws

\* C14: with the reference strategy and a freshly built deck with
\* n_card_decks >= 1, a round never has a draw pending on an empty deck, it
\* ends only by returning from Resolved, and once started it does end, with a
\* result and without an error.
C14_BasicRoundTerminates ==
    /\ [](FreshBasicRound => (~(DrawPending /\ cards = <<>>) /\ RoundDraws < 52))
    /\ [][(FreshBasicRound /\ pc' = "idle")
            => (pc = "Resolved" /\ err' = "none"
                /\ result' \in {"win", "lose", "draw"})]_vars
    /\ (FreshBasicRound /\ pc = "Dealing")
          ~> (pc = "idle" /\ err = "none" /\ result \in {"win", "lose", "draw"})

\* a round of experiment() under the reference strategy has returned after
\* taking nine cards or more
C14_Witness ==
    /\ epc = "tally" /\ strategy = "basic" /\ Len(drawn) >= 9
    /\ result \in {"win", "lose", "draw"}

---------------------------------------------------------------------------
(* Claims about play() called repeatedly without reset() *)

\* the rounds completed since the deck was built, while no call has raised
CompletedRounds == IF pc = "idle" /\ err = "none" THEN rounds ELSE rounds - 1

\* C15: play() never refills or resets the deck. Every step of play() leaves
\* the deck as it is or removes its last card; a completed round has taken at
\* least four cards, which stay out of the deck; so after the rounds completed
\* on a game of n_card_decks >= 0 decks the deck holds at most
\* 52*n_card_decks - 4*rounds cards, at most 13*n_card_decks rounds complete,
\* and a client that keeps calling play() reaches the failing draw.
C15_NoRefill ==
    /\ [](n_card_decks >= 0 =>
            /\ Len(cards) = 52 * n_card_decks - Len(drawn)
            /\ Len(cards) <= 52 * n_card_decks - 4 * CompletedRounds
            /\ CompletedRounds <= 13 * n_card_decks)
    /\ [][/\ cards' = cards \/ cards' = SubSeq(cards, 1, Len(cards) - 1)
          /\ (pc = "Resolved" /\ pc' = "idle") => (RoundDraws >= 4 /\ cards' = cards)]_vars
    /\ <>(err = "IndexError")

\* after ten completed rounds or more on a single deck a round ran out of cards
C15_Witness ==
    /\ err = "IndexError" /\ n_card_decks = 1 /\ rounds >= 11
    /\ Len(drawn) = 52

---------------------------------------------------------------------------
(* Claims about the statistics of experiment() *)

Outcomes == {"win", "lose", "draw"}

\* experiment() is running
InExperiment == epc \in {"loop", "play", "tally", "reset"}

\* C16: the statistics mapping always has exactly the keys win, lose and draw,
\* with natural numbers as counts; all counts are 0 when experiment() starts
\* and when it returns for n_runs = 0; while experiment() runs the mapping
\* changes only at the tally of a completed round, where the count of that
\* round's outcome grows by exactly 1 and the other two stay as they are.
C16_Statistics ==
    /\ [](/\ DOMAIN results = Outcomes
          /\ \A k \in Outcomes : results[k] \in Nat
          /\ (InExperiment /\ run = 0) => results = NoResults
          /\ (epc = "returned" /\ n_runs = 0) => results = NoResults)
    /\ [][/\ (~InExperiment /\ InExperiment') => results' = NoResults
          /\ (InExperiment /\ epc' \in {"loop", "play", "tally", "reset", "returned"}) =>
                IF epc = "tally"
                THEN /\ result \in Outcomes
                     /\ results'[result] = results[result] + 1
                     /\ \A k \in Outcomes \ {result} : results'[k] = results[k]
                ELSE results' = results]_vars

\* a batch of two rounds returned with two losses
C16_Witness ==
    /\ epc = "returned" /\ n_runs = 2 /\ results.lose = 2

---------------------------------------------------------------------------
(* Claims about the hands of a round *)

\* hand h becomes h2 by appending the card removed from the deck in this step
AppendsDrawn(h, h2) ==
    /\ cards # <<>>
    /\ h2 = Append(h, cards[Len(cards)])
    /\ cards' = SubSeq(cards, 1, Len(cards) - 1)

\* C17: within a round a hand changes only by appending the card removed from
\* the deck in the same step, one hand per card; once dealt, the player's hand
\* changes only at a hit of the player's turn, the dealer's hand is its two
\* initial cards throughout the player's turn, and the player's hand does not
\* change in the dealer's turn and the resolution, which sees the hands as
\* they are.
C17_HandsAppendOnly ==
    [][/\ (pc # "idle" /\ pc' # "idle") =>
            /\ player_hand' = player_hand \/ AppendsDrawn(player_hand, player_hand')
            /\ dealer_hand' = dealer_hand \/ AppendsDrawn(dealer_hand, dealer_hand')
            /\ player_hand' = player_hand \/ dealer_hand' = dealer_hand
            /\ cards' # cards
                 => (player_hand' # player_hand \/ dealer_hand' # dealer_hand)
            /\ (PastDeal /\ player_hand' # player_hand) => pc = "PlayerHit"
            /\ pc \in {"PlayerTurn", "PlayerHit"}
                 => (dealer_hand' = dealer_hand /\ Len(dealer_hand) = 2)
            /\ pc \in {"DealerTurn", "Resolved"} => player_hand' = player_hand
       /\ (pc = "Resolved" /\ pc' # "Resolved") =>
            /\ pc' = "idle" /\ cards' = cards
            /\ result' = determine_winner(player_hand, dealer_hand)]_vars

\* a round is resolved in which the player and the dealer have both drawn
C17_Witness ==
    /\ pc = "Resolved" /\ Len(player_hand) >= 4 /\ Len(dealer_hand) >= 3

\* the player's hand is over 21
PlayerBust == calculate_hand_value(player_hand) > 21

\* C18: the dealer's turn runs even when the player is over 21. A stand on such
\* a hand leads to the dealer's turn, where every step on a dealer value below
\* 17 draws a card for the dealer (or fails on an empty deck); the round is
\* resolved only on a dealer value of at least 17, and then returns 'lose'.
C18_DealerPlaysAfterBust ==
    /\ []((pc = "Resolved" /\ PlayerBust) => calculate_hand_value(dealer_hand) >= 17)
    /\ [][/\ (pc = "PlayerTurn" /\ PlayerBust) => pc' \in {"PlayerHit", "DealerTurn"}
          /\ (pc = "DealerTurn" /\ PlayerBust /\ calculate_hand_value(dealer_hand) < 17) =>
                \/ /\ cards # <<>> /\ pc' = "DealerTurn"
                   /\ dealer_hand' = Append(dealer_hand, cards[Len(cards)])
                   /\ Len(cards') = Len(cards) - 1
                \/ /\ cards = <<>> /\ pc' = "idle" /\ err' = "IndexError"
          /\ (pc = "Resolved" /\ PlayerBust)
                => (pc' = "idle" /\ result' = "lose" /\ cards' = cards)]_vars

\* the reference strategy stood on a hand over 21 and the dealer has drawn two
\* cards since
C18_Witness ==
    /\ pc = "Resolved" /\ strategy = "basic" /\ PlayerBust
    /\ Len(dealer_hand) >= 4

---------------------------------------------------------------------------
(* Claims about the two hand-value functions *)

\* C19: the strategy module's calculate_hand_value and the engine's return the
\* same value for every hand of a round (a hand is first held in a state of the
\* deal, of a strategy query or of the dealer's turn), so the reference
\* strategy answers stand exactly when the engine's value of the player's hand
\* is at least 17: under it the player is hit only below 17, the dealer's turn
\* finds the player at 17 or more, and at Resolved both engine values are at
\* least 17.
C19_SameHandValue ==
    [](LET player_value == calculate_hand_value(player_hand)
           dealer_value == calculate_hand_value(dealer_hand)
           upcard == IF dealer_hand = <<>> THEN "A" ELSE dealer_hand[1]
       IN  /\ pc \notin {"PlayerHit", "Resolved"} =>
                 /\ strategy_calculate_hand_value(player_hand) = player_value
                 /\ strategy_calculate_hand_value(dealer_hand) = dealer_value
           /\ strategy = "basic" =>
                 /\ ~basic(player_hand, upcard) <=> player_value >= 17
                 /\ pc = "PlayerHit" => player_value < 17
                 /\ pc \in {"DealerTurn", "Resolved"} => player_value >= 17
                 /\ pc = "Resolved" => dealer_value >= 17)

\* the reference strategy stood on a hand in which two Aces count as 1
C19_Witness ==
    /\ pc = "Resolved" /\ strategy = "basic"
    /\ Count(player_hand, "A") >= 2
    /\ calculate_hand_value(player_hand) = AllAcesAsOne(player_hand)

====
